---- MODULE Spec2Model ----
(***************************************************************************)
(* Model of FGAme.physics.obj_aabb.AABB: construction through aabb_bbox    *)
(* and LinearRigidBody, the four extent setters, area, ROG_sqr and         *)
(* primitive.                                                              *)
(*                                                                         *)
(* Numbers are modelled by their exact value.  Every extent that occurs is *)
(* an even integer, so the true divisions by 2 of the source are exact     *)
(* (EvenExtents below is checked as an invariant).                         *)
(***************************************************************************)
EXTENDS Integers, Sequences, FiniteSets

VARIABLES body, err, ret, last

vars == <<body, err, ret, last>>

(* ------------------------------ bounds -------------------------------- *)
MaxK == 2
MaxShapeK == 2

Vals == {2 * k : k \in 0..MaxK}
ShapeVals == {4 * k : k \in 0..MaxShapeK}

(* --------------------------- Python values ---------------------------- *)
\* An optional argument is None or Some(v).
None == <<>>
Some(v) == <<v>>
Get(o) == o[1]

\* float(value): the float with the value of the number given.
float(value) == value

\* x / 2 on floats.
Half(x) == x \div 2

\* A moment of inertia: infinite, or a finite value.
Inf == [inf |-> TRUE]
Finite(x) == [inf |-> FALSE, val |-> x]
NoErr == "none"
NoBody == [kind |-> "none"]
Exists(b) == b.kind = "AABB"

\* A bound method object (self.bbox not called): not a 4-tuple.
BoundMethod == <<"bbox">>

(* ------------------------ geometric properties ------------------------ *)
area_perimeter(b) == (b.xmax - b.xmin) + (b.ymax - b.ymin)

\* AABB.area
area(b) == (b.xmax - b.xmin) * (b.ymax - b.ymin)

\* AABB.ROG_sqr, as the fraction num/den
ROG_sqr(b) ==
    LET a == b.xmax - b.xmin
        c == b.ymax - b.ymin
    IN  [num |-> a * a + c * c, den |-> 12]

\* bbox of a body: (xmin, xmax, ymin, ymax)
bbox(b) == <<b.xmin, b.xmax, b.ymin, b.ymax>>

(* ------------------------ external collaborators ---------------------- *)
\* FGAme.mathutils.aabb_bbox: the four construction forms resolved to one
\* tuple of extents, or an error.
aabb_bbox(a) ==
    LET forms == {f \in {"bbox", "rect", "shape"} : a[f] # None}
        malformed == a.bbox # None /\ Len(Get(a.bbox)) # 4
        base == IF a.bbox # None THEN a.bbox
                ELSE IF a.rect # None
                     THEN LET r == Get(a.rect)
                          IN  Some(<<r[1], r[1] + r[3], r[2], r[2] + r[4]>>)
                ELSE IF a.shape # None
                     THEN LET s == Get(a.shape)
                              p == IF a.pos = None THEN <<0, 0>> ELSE Get(a.pos)
                          IN  Some(<<p[1] - Half(s[1]), p[1] + Half(s[1]),
                                     p[2] - Half(s[2]), p[2] + Half(s[2])>>)
                ELSE None
        pick(given, i) == IF given # None THEN given
                          ELSE IF base # None THEN Some(Get(base)[i])
                          ELSE None
        e == <<pick(a.xmin, 1), pick(a.xmax, 2), pick(a.ymin, 3), pick(a.ymax, 4)>>
    IN  IF malformed \/ Cardinality(forms) > 1 \/ \E i \in 1..4 : e[i] = None
        THEN [err |-> "ConstructionAmbiguityError", bbox |-> <<>>]
        ELSE LET r == <<float(Get(e[1])), float(Get(e[2])),
                        float(Get(e[3])), float(Get(e[4]))>>
             IN  IF r[1] > r[2] \/ r[3] > r[4]
                 THEN [err |-> "InvalidGeometryError", bbox |-> <<>>]
                 ELSE [err |-> NoErr, bbox |-> r]

\* LinearRigidBody.__init__: stores extents, position and velocity, resolves
\* the mass from explicit mass or density * area, inertia is infinite.
LinearRigidBody_init(xmin, xmax, ymin, ymax, pos, vel, mass, density) ==
    LET geo == [xmin |-> xmin, xmax |-> xmax, ymin |-> ymin, ymax |-> ymax]
        d == IF density = None THEN 1 ELSE Get(density)
    IN  [kind |-> "AABB",
         xmin |-> xmin, xmax |-> xmax, ymin |-> ymin, ymax |-> ymax,
         pos |-> pos, vel |-> vel,
         mass |-> IF mass # None THEN Get(mass) ELSE area(geo) * d,
         inertia |-> Inf]

(* ----------------------------- AABB.__init__ -------------------------- *)
NoKw == [xmin |-> None, xmax |-> None, ymin |-> None, ymax |-> None,
         pos |-> None, vel |-> None, mass |-> None, density |-> None,
         bbox |-> None, shape |-> None, rect |-> None]

BindArgs_xyorder(call) ==
    LET p == call.positional
        k == call.kw
        at(i, given) == IF Len(p) >= i THEN Some(p[i]) ELSE given
    IN  [k EXCEPT !.xmin = at(1, k.xmin), !.ymin = at(2, k.ymin),
                  !.xmax = at(3, k.xmax), !.ymax = at(4, k.ymax),
                  !.vel = IF k.vel = None THEN Some(<<0, 0>>) ELSE k.vel]

\* Binding of a call AABB(*positional, **kw) to the parameters of __init__:
\* the first four positional parameters are xmin, xmax, ymin, ymax and vel
\* defaults to (0, 0).
BindArgs(call) ==
    LET p == call.positional
        k == call.kw
        at(i, given) == IF Len(p) >= i THEN Some(p[i]) ELSE given
    IN  [k EXCEPT !.xmin = at(1, k.xmin), !.xmax = at(2, k.xmax),
                  !.ymin = at(3, k.ymin), !.ymax = at(4, k.ymax),
                  !.vel = IF k.vel = None THEN Some(<<0, 0>>) ELSE k.vel]

InitPos_halfextent(xmin, xmax, ymin, ymax) ==
    <<Half(xmax - xmin), Half(ymax - ymin)>>

\* pos = ((xmin + xmax) / 2., (ymin + ymax) / 2.)
InitPos(xmin, xmax, ymin, ymax) == <<Half(xmin + xmax), Half(ymin + ymax)>>

AABB_init_defaulting(call) ==
    LET a == BindArgs(call)
        r == aabb_bbox(a)
        e == IF r.err # NoErr THEN <<0, 0, 0, 0>> ELSE r.bbox
    IN  [err |-> NoErr,
         body |-> LinearRigidBody_init(e[1], e[2], e[3], e[4],
                      InitPos(e[1], e[2], e[3], e[4]),
                      Get(a.vel), a.mass, a.density)]

\* AABB.__init__: the body built, or the error raised by aabb_bbox.
AABB_init(call) ==
    LET a == BindArgs(call)
        r == aabb_bbox(a)
    IN  IF r.err # NoErr
        THEN [err |-> r.err, body |-> NoBody]
        ELSE LET xmin == r.bbox[1]
                 xmax == r.bbox[2]
                 ymin == r.bbox[3]
                 ymax == r.bbox[4]
             IN  [err |-> NoErr,
                  body |-> LinearRigidBody_init(xmin, xmax, ymin, ymax,
                               InitPos(xmin, xmax, ymin, ymax),
                               Get(a.vel), a.mass, a.density)]

(* ------------------------------ setters ------------------------------- *)
xmin_setter_stale(b, value) ==
    [b EXCEPT !.xmin = float(value),
              !.pos = <<Half(b.xmax - b.xmin), b.pos[2]>>]

xmin_setter(b, value) ==
    LET b1 == [b EXCEPT !.xmin = float(value)]
    IN  [b1 EXCEPT !.pos = <<Half(b1.xmax - b1.xmin), b1.pos[2]>>]

xmax_setter_midpoint(b, value) ==
    LET b1 == [b EXCEPT !.xmax = float(value)]
    IN  [b1 EXCEPT !.pos = <<Half(b1.xmax + b1.xmin), b1.pos[2]>>]

xmax_setter(b, value) ==
    LET b1 == [b EXCEPT !.xmax = float(value)]
    IN  [b1 EXCEPT !.pos = <<Half(b1.xmax - b1.xmin), b1.pos[2]>>]

ymin_setter_wrongaxis(b, value) ==
    LET b1 == [b EXCEPT !.ymin = float(value)]
    IN  [b1 EXCEPT !.pos = <<Half(b1.ymax - b1.ymin), b1.pos[2]>>]

ymin_setter(b, value) ==
    LET b1 == [b EXCEPT !.ymin = float(value)]
    IN  [b1 EXCEPT !.pos = <<b1.pos[1], Half(b1.ymax - b1.ymin)>>]

ymax_setter_swapping(b, value) ==
    LET lo == IF float(value) < b.ymin THEN float(value) ELSE b.ymin
        hi == IF float(value) < b.ymin THEN b.ymin ELSE float(value)
        b1 == [b EXCEPT !.ymin = lo, !.ymax = hi]
    IN  [b1 EXCEPT !.pos = <<b1.pos[1], Half(b1.ymax - b1.ymin)>>]

ymax_setter_inertia(b, value) ==
    LET b1 == [b EXCEPT !.ymax = float(value)]
    IN  [b1 EXCEPT !.pos = <<b1.pos[1], Half(b1.ymax - b1.ymin)>>,
                   !.inertia = Finite(b1.mass * ROG_sqr(b1).num)]

ymax_setter(b, value) ==
    LET b1 == [b EXCEPT !.ymax = float(value)]
    IN  [b1 EXCEPT !.pos = <<b1.pos[1], Half(b1.ymax - b1.ymin)>>]

\* body.<name> = value for one of the four extent properties
setattr(b, name, value) ==
    CASE name = "xmin" -> xmin_setter(b, value)
      [] name = "xmax" -> xmax_setter(b, value)
      [] name = "ymin" -> ymin_setter(b, value)
      [] name = "ymax" -> ymax_setter(b, value)

(* ----------------------------- primitive ------------------------------ *)
\* AABB(bbox=self.bbox).  bboxIsMethod: whether the base class exposes bbox
\* as a method (as __repr__ calls it) or as a property (as the docstring
\* reads it).
primitive(b, bboxIsMethod) ==
    AABB_init([positional |-> <<>>,
               kw |-> [NoKw EXCEPT !.bbox =
                          Some(IF bboxIsMethod THEN BoundMethod ELSE bbox(b))]])

(* ------------------------------- calls -------------------------------- *)
Dyn == {[vel |-> v, mass |-> m, density |-> d] :
           v \in {None, Some(<<2, 0>>)},
           m \in {None, Some(6)},
           d \in {None, Some(2)}}

Tuples4 == Vals \X Vals \X Vals \X Vals

WithDyn(kw, dyn) ==
    [kw EXCEPT !.vel = dyn.vel, !.mass = dyn.mass, !.density = dyn.density]

KwCall(kw, dyn) == [positional |-> <<>>, kw |-> WithDyn(kw, dyn)]

BboxCall(t, dyn) == KwCall([NoKw EXCEPT !.bbox = Some(t)], dyn)
RectCall(t, dyn) == KwCall([NoKw EXCEPT !.rect = Some(t)], dyn)
ShapeCall(s, p, dyn) == KwCall([NoKw EXCEPT !.shape = Some(s), !.pos = p], dyn)
ExtentsCall(t, dyn) ==
    KwCall([NoKw EXCEPT !.xmin = Some(t[1]), !.xmax = Some(t[2]),
                        !.ymin = Some(t[3]), !.ymax = Some(t[4])], dyn)
PositionalCall(t, dyn) == [positional |-> t, kw |-> WithDyn(NoKw, dyn)]
PartialCall(t, dyn) ==
    KwCall([NoKw EXCEPT !.xmin = Some(t[1]), !.xmax = Some(t[2])], dyn)
MixedCall(t, v, dyn) ==
    KwCall([NoKw EXCEPT !.bbox = Some(t), !.xmax = Some(v)], dyn)

Calls ==
    {BboxCall(t, d) : t \in Tuples4, d \in Dyn}
    \cup {RectCall(t, d) : t \in Tuples4, d \in Dyn}
    \cup {ShapeCall(s, p, d) : s \in ShapeVals \X ShapeVals,
                               p \in {None, Some(<<2, 2>>)}, d \in Dyn}
    \cup {ExtentsCall(t, d) : t \in Tuples4, d \in Dyn}
    \cup {PositionalCall(t, d) : t \in Tuples4, d \in Dyn}
    \cup {PartialCall(t, d) : t \in Vals \X Vals, d \in Dyn}
    \cup {MixedCall(t, v, d) : t \in {<<0, 2, 0, 4>>}, v \in Vals, d \in Dyn}

(* ------------------------------ actions ------------------------------- *)
Init ==
    /\ body = NoBody
    /\ err = NoErr
    /\ ret = NoBody
    /\ last = [op |-> "none"]

Construct ==
    /\ ~Exists(body)
    /\ last.op = "none"
    /\ \E call \in Calls :
          LET r == AABB_init(call)
          IN  /\ body' = r.body
              /\ err' = r.err
              /\ last' = [op |-> "AABB", call |-> call]
    /\ ret' = NoBody

SetXmin ==
    /\ Exists(body)
    /\ \E value \in Vals :
          /\ body' = xmin_setter(body, value)
          /\ last' = [op |-> "xmin", value |-> value]
    /\ err' = NoErr
    /\ ret' = NoBody

SetXmax ==
    /\ Exists(body)
    /\ \E value \in Vals :
          /\ body' = xmax_setter(body, value)
          /\ last' = [op |-> "xmax", value |-> value]
    /\ err' = NoErr
    /\ ret' = NoBody

SetYmin ==
    /\ Exists(body)
    /\ \E value \in Vals :
          /\ body' = ymin_setter(body, value)
          /\ last' = [op |-> "ymin", value |-> value]
    /\ err' = NoErr
    /\ ret' = NoBody

SetYmax ==
    /\ Exists(body)
    /\ \E value \in Vals :
          /\ body' = ymax_setter(body, value)
          /\ last' = [op |-> "ymax", value |-> value]
    /\ err' = NoErr
    /\ ret' = NoBody

Primitive ==
    /\ Exists(body)
    /\ \E bboxIsMethod \in BOOLEAN :
          LET r == primitive(body, bboxIsMethod)
          IN  /\ ret' = r.body
              /\ err' = r.err
    /\ last' = [op |-> "primitive"]
    /\ UNCHANGED body

Next ==
    \/ Construct
    \/ SetXmin
    \/ SetXmax
    \/ SetYmin
    \/ SetYmax
    \/ Primitive

Spec == Init /\ [][Next]_vars

Setters == {"xmin", "xmax", "ymin", "ymax"}

\* Every extent is an even integer, so Half is exact wherever it is applied.
EvenExtents ==
    Exists(body) => \A i \in 1..4 : bbox(body)[i] % 2 = 0

(* ------------------------------ claims -------------------------------- *)
XSetters == {"xmin", "xmax"}
YSetters == {"ymin", "ymax"}

\* Index of an extent property in the bbox tuple.
Idx(name) ==
    CASE name = "xmin" -> 1
      [] name = "xmax" -> 2
      [] name = "ymin" -> 3
      [] name = "ymax" -> 4

Ordered(b) == b.xmin <= b.xmax /\ b.ymin <= b.ymax

HalfExtents(b) == <<Half(b.xmax - b.xmin), Half(b.ymax - b.ymin)>>

OrderedTuples == {t \in Tuples4 : t[1] <= t[2] /\ t[3] <= t[4]}

NoDyn == [vel |-> None, mass |-> None, density |-> None]

\* The vel, mass and density arguments of a call.
DynOf(call) ==
    [vel |-> call.kw.vel, mass |-> call.kw.mass, density |-> call.kw.density]

C2_InitPosHalfExtent ==
    (last.op = "AABB" /\ Exists(body)) => body.pos = HalfExtents(body)

\* C2 (amended): right after a successful construction the position is the
\* midpoint of the box, ((xmin+xmax)/2, (ymin+ymax)/2).
C2_InitPosMidpoint ==
    (last.op = "AABB" /\ Exists(body)) =>
        /\ 2 * body.pos[1] = body.xmin + body.xmax
        /\ 2 * body.pos[2] = body.ymin + body.ymax

C2_Witness ==
    /\ last.op = "AABB"
    /\ Exists(body)
    /\ bbox(body) = <<2, 4, 0, 4>>
    /\ body.pos = <<3, 2>>

\* C3 (as stated): in every reachable state of a body xmin <= xmax and
\* ymin <= ymax.
C3_AlwaysOrdered == Exists(body) => Ordered(body)

\* C3 (amended): a successfully constructed body has xmin <= xmax and
\* ymin <= ymax; an extent write is not validated: it stores the value in the
\* written extent and leaves the other three extents as they are (no swap),
\* so the box is inverted afterwards when the value crosses the opposite
\* extent.
C3_OrderedUnlessWritten ==
    [][/\ (last'.op = "AABB" /\ Exists(body')) => Ordered(body')
       /\ last'.op \in Setters =>
             bbox(body') = [bbox(body) EXCEPT ![Idx(last'.op)] = last'.value]
      ]_vars

C3_Witness ==
    /\ Exists(body)
    /\ last = [op |-> "ymax", value |-> 0]
    /\ body.ymin = 2
    /\ body.ymax = 0

\* C4: a write of one extent succeeds, also when it inverts the box; the
\* extent equals the value written, the position component of its axis is
\* (max-min)/2 of that axis, and the other extents, the other position
\* component, velocity and mass are unchanged.
C4_WriteEffectFrame ==
    [][last'.op \in Setters =>
          LET i == Idx(last'.op)
              x == last'.op \in XSetters
          IN  /\ err' = NoErr
              /\ Exists(body')
              /\ bbox(body')[i] = last'.value
              /\ \A j \in (1..4) \ {i} : bbox(body')[j] = bbox(body)[j]
              /\ IF x THEN /\ 2 * body'.pos[1] = body'.xmax - body'.xmin
                           /\ body'.pos[2] = body.pos[2]
                      ELSE /\ 2 * body'.pos[2] = body'.ymax - body'.ymin
                           /\ body'.pos[1] = body.pos[1]
              /\ body'.vel = body.vel
              /\ body'.mass = body.mass
      ]_vars

C4_Witness ==
    /\ Exists(body)
    /\ last = [op |-> "xmax", value |-> 4]
    /\ bbox(body) = <<0, 4, 0, 4>>
    /\ body.pos[1] = 2
    /\ body.vel = <<2, 0>>

\* C5: in every reachable body state primitive() returns a new body with
\* the same bbox and zero velocity, and leaves the original body unchanged.
C5_Primitive ==
    [][last'.op = "primitive" =>
          /\ Exists(ret')
          /\ bbox(ret') = bbox(body')
          /\ ret'.vel = <<0, 0>>
          /\ body' = body
      ]_vars

\* C6: for ordered extents t the constructions bbox=t,
\* rect=(xmin, ymin, xmax-xmin, ymax-ymin), keyword extents and positional
\* extents all succeed with bbox() == t.
C6_ConstructionEquivalence ==
    last.op = "AABB" =>
        LET d == DynOf(last.call)
        IN  \A t \in OrderedTuples :
                last.call \in {BboxCall(t, d),
                               RectCall(<<t[1], t[3], t[2] - t[1], t[4] - t[3]>>, d),
                               ExtentsCall(t, d),
                               PositionalCall(t, d)}
                => /\ err = NoErr
                   /\ Exists(body)
                   /\ bbox(body) = t

C6_Witness ==
    /\ last.op = "AABB"
    /\ last.call = PositionalCall(<<0, 2, 0, 4>>, NoDyn)
    /\ Exists(body)
    /\ bbox(body) = <<0, 2, 0, 4>>
    /\ bbox(body) = bbox(AABB_init(RectCall(<<0, 0, 2, 4>>, NoDyn)).body)

\* C7: a construction whose arguments do not determine the four extents
\* raises ConstructionAmbiguityError, one whose resolved extents are inverted
\* raises InvalidGeometryError; in both cases no body is created.
C7_FailFast ==
    last.op = "AABB" =>
        LET d == DynOf(last.call)
        IN  /\ \A t \in Vals \X Vals :
                  last.call = PartialCall(t, d)
                  => err = "ConstructionAmbiguityError" /\ ~Exists(body)
            /\ \A t \in Tuples4 \ OrderedTuples :
                  last.call \in {BboxCall(t, d), ExtentsCall(t, d),
                                 PositionalCall(t, d)}
                  => err = "InvalidGeometryError" /\ ~Exists(body)
            /\ err # NoErr => ~Exists(body)

C7_Witness ==
    /\ last.op = "AABB"
    /\ last.call = PartialCall(<<0, 4>>, NoDyn)
    /\ err = "ConstructionAmbiguityError"
    /\ ~Exists(body)

\* C8: a body constructed without explicit mass has
\* mass == (xmax-xmin)*(ymax-ymin)*density, density defaulting to 1, which is
\* non-negative; one constructed with an explicit mass has that mass whatever
\* the density.
C8_MassDerivation ==
    (last.op = "AABB" /\ Exists(body)) =>
        LET m == last.call.kw.mass
            d == last.call.kw.density
        IN  /\ m # None => body.mass = Get(m)
            /\ m = None =>
                  body.mass = (body.xmax - body.xmin) * (body.ymax - body.ymin)
                              * (IF d = None THEN 1 ELSE Get(d))
            /\ body.mass >= 0

C8_Witness ==
    /\ last.op = "AABB"
    /\ last.call = ShapeCall(<<4, 8>>, None, NoDyn)
    /\ Exists(body)
    /\ bbox(body) = <<-2, 2, -4, 4>>
    /\ area(body) = 32
    /\ body.mass = 32

\* C9: the inertia of a body is positive infinity in every reachable state,
\* whatever ROG_sqr() is.
C9_InertiaInfinite ==
    /\ Exists(body) => body.inertia = Inf
    /\ Exists(ret) => ret.inertia = Inf

C9_Witness ==
    /\ Exists(body)
    /\ last.op = "ymax"
    /\ ROG_sqr(body).num > 0
    /\ body.mass > 0
    /\ body.inertia = Inf

\* C10: two writes to different extents give the same extents and position
\* in either order, and writing the same value to an extent twice gives the
\* state of writing it once.
C10_OrderIndependent ==
    Exists(body) =>
        /\ \A a \in Vals, c \in Vals :
              \A p \in {<<"xmin", "xmax">>, <<"xmin", "ymin">>, <<"xmin", "ymax">>,
                        <<"xmax", "ymin">>, <<"xmax", "ymax">>, <<"ymin", "ymax">>} :
                  setattr(setattr(body, p[1], a), p[2], c)
                  = setattr(setattr(body, p[2], c), p[1], a)
        /\ \A a \in Vals, m \in Setters :
              setattr(setattr(body, m, a), m, a) = setattr(body, m, a)

C10_Witness ==
    /\ Exists(body)
    /\ last.op = "ymin"
    /\ body.xmin > body.xmax
    /\ body.pos = HalfExtents(body)
    /\ \E a \in Vals :
          setattr(setattr(body, "xmin", a), "xmax", 0).pos[1]
          # setattr(body, "xmin", a).pos[1]
====
